---- MODULE Spec2Model ----
(***************************************************************************)
(* Model of the StockAI analysis cache and daily search quota:             *)
(*   backend/app/services/search_limit.py   (SearchLimitService)           *)
(*   backend/app/services/stock_cache.py    (StockCacheService)            *)
(*   backend/app/api/endpoints/search.py    (analyze_stock)                *)
(* One user.  Every request works on the User object loaded for it; the    *)
(* users row and the Redis keys are shared.  A request yields at every     *)
(* awaited commit and around the network calls; the wall clock advances    *)
(* between any two steps.  A commit writes the attributes the request has  *)
(* assigned; the stored datetime is kept as its date(), the only part of   *)
(* it the code compares.                                                   *)
(***************************************************************************)
EXTENDS Integers, Sequences, FiniteSets, TLC

\* ---------------------------------------------------------------- bounds
TicksPerSec == 2    \* clock resolution: ticks in one second
TicksPerDay == 3    \* length of the (scaled) UTC day in ticks
MaxTick     == 3    \* the clock stops at this tick

\* ------------------------------------------------------ program constants
DAILY_LIMIT == 10

\* The analyze requests of the user: two, each run once, in any interleaving.
Procs == {1, 2}
Days  == 0..(MaxTick \div TicksPerDay)

\* The symbols a caller sends, and str.upper() on them.
Symbols == {"tcs", "TCS", "INFY"}
Upper(s) == IF s = "tcs" THEN "TCS" ELSE s
UpperSymbols == {Upper(s) : s \in Symbols}

\* The analysis_type a caller sends (StockAnalysisRequest, line 239), and the
\* value the field takes when the caller leaves it out.
AnalysisTypes == {"technical", "ai", "both"}
DefaultTypes  == {"technical"}


\* datetime.date() / strftime("%Y-%m-%d") of an instant given in ticks.
DateOf(t) == t \div TicksPerDay

NoData  == [symbol |-> "none", by |-> 0, type |-> "none", parts |-> {}, ai |-> "none"]
NoEntry == [payload |-> NoData, day |-> -1, exp |-> 0]
NoList  == [items |-> <<>>, exp |-> 0]
NoInfo  == [used |-> -1, remaining |-> -1, can |-> FALSE]
NoResp  == [success |-> FALSE, error |-> "pending", data |-> NoData, info |-> NoInfo]
NoCI    == [can |-> FALSE, remaining |-> -1]
NoStore == [date |-> -1, key |-> <<"none", -1>>, expiry |-> 0, existing |-> <<>>]
NoUser  == [count |-> 0, date |-> -1]

\* users.last_search_reset IS NULL: a row older than the column, which
\* scripts/update_existing_users.py has not yet filled in.
NoDate == -2

\* No call of a pure function is under way.
NoCall == [f |-> "none"]

VARIABLES
  now,            \* wall clock, in ticks
  dbCount,        \* users.daily_search_count of the user's row
  dbDate,         \* date() of users.last_search_reset of the user's row
  cache,          \* Redis stock_data:... keys: <<SYMBOL, date>> -> entry
  slist,          \* Redis stock_cache:user:...:date:<date> keys: date -> list
  pc,             \* position of each request
  usr,            \* the User object each request works on
  sym,            \* stock_request.symbol of each request past the cache lookup,
                  \* in the upper case every later use of it takes
  ci,             \* (can_search, remaining) check_and_increment returned
  stv,            \* locals of store_stock_analysis: date, cache_key, expiry
  resp,           \* the AnalysisResponse of each request
  did,            \* what each request has done so far
  after,          \* the day the request began on, when an analysis of its symbol
                  \* had completed through store earlier that day; else -1
  admittedToday,  \* check_and_increment calls that returned True in the current
                  \* UTC day, since the administrator last reset the count
  completed,      \* SYMBOLs of the analyses completed through store today
  firstStore,     \* SYMBOL -> the time of its first store of today, or -1
  full,           \* full_response_data of each request, once it is built
  client,         \* the module-level OpenAI client is configured (not None)
  aiUp,           \* the OpenAI call answers (else it raises)
  redisUp,        \* Redis is reachable (else every redis_client call raises)
  dbUp,           \* the database is reachable (else db.commit() raises)
  arg,            \* the arguments of a call of one of the pure functions
  ret,            \* what that call returned, once it has returned
  otp,            \* Redis key otp:<email>: the stored code, or NoOtp
  vc,             \* the verify_otp call of each caller: position and locals
  rs,             \* position of the resend_otp call
  olog            \* codes issued and spent, and wrong guesses made, so far

vars == <<now, dbCount, dbDate, cache, slist, pc, usr, sym, ci, stv, resp,
          did, after, admittedToday, completed, firstStore, full, client, aiUp,
          redisUp, dbUp, arg, ret, otp, vc, rs, olog>>

dbVars    == <<dbCount, dbDate>>
redisVars == <<cache, slist>>
ghostVars == <<admittedToday, completed, firstStore>>
envVars   == <<client, aiUp, redisUp, dbUp>>
callVars  == <<arg, ret>>
otpVars   == <<otp, vc, rs, olog>>
serviceVars == <<now, dbVars, redisVars, pc, usr, sym, ci, stv, resp, did,
                 after, ghostVars, full>>
analysisVars == <<dbVars, redisVars, pc, usr, sym, ci, stv, resp, did, after,
                  ghostVars, full>>

\* A Redis key holds a value until its time-to-live has run out.
Live(e) == e.exp > now

\* ------------------------------------------------------ search_limit.py

\* Mutant: the reset also runs on the day of the last reset.
NeedsResetSameDay(u) == u.date # NoDate /\ DateOf(now) >= u.date

\* Mutant: the reset waits for a second day to pass.
NeedsResetLate(u) == u.date # NoDate /\ DateOf(now) > u.date + 1

\* _reset_daily_count_if_needed, lines 46-50: last_reset is the stored value
\* or, when that is None, a second utcnow(); now.date() > last_reset.date().
NeedsReset(u) == u.date # NoDate /\ DateOf(now) > u.date

\* Mutant: the reset moves the date and leaves the count.
ResetUserKeepsCount(u) == [u EXCEPT !.date = DateOf(now)]

\* _reset_daily_count_if_needed, lines 51-52: the object after the reset.
ResetUser(u) == [count |-> 0, date |-> DateOf(now)]

\* Mutant: the limit test is off by one.
AtLimitOffByOne(u) == u.count > DAILY_LIMIT

\* check_and_increment_search_count, line 28.
AtLimit(u) == u.count >= DAILY_LIMIT

\* check_and_increment_search_count, line 32.
Incremented(u) == [u EXCEPT !.count = u.count + 1]

\* get_user_search_status, line 70, on the object after the lazy reset.
StatusOf(u) == IF DAILY_LIMIT - u.count > 0 THEN DAILY_LIMIT - u.count ELSE 0

\* get_user_search_status, lines 70-79: used_today, remaining_today, can_search.
StatusInfo(u) == [used |-> u.count, remaining |-> StatusOf(u), can |-> StatusOf(u) > 0]

\* get_user_search_status on the object u of request p: lazy reset (committed
\* when it happens; a commit that raises is logged, lines 55-57), then the
\* status, attached to the response r.
StatusStep(p, u, r) ==
  LET u2 == IF NeedsReset(u) THEN ResetUser(u) ELSE u
  IN /\ IF NeedsReset(u) /\ dbUp
          THEN dbCount' = u2.count /\ dbDate' = u2.date
          ELSE UNCHANGED dbVars
     /\ resp' = [resp EXCEPT ![p] = [r EXCEPT !.info = StatusInfo(u2)]]

\* The response is returned: the objects of the request are dropped.
Return(p) ==
  /\ pc' = [pc EXCEPT ![p] = "done"]
  /\ usr' = [usr EXCEPT ![p] = NoUser]
  /\ sym' = [sym EXCEPT ![p] = "INFY"]
  /\ stv' = [stv EXCEPT ![p] = NoStore]
  /\ full' = [full EXCEPT ![p] = NoData]
  /\ after' = [after EXCEPT ![p] = -1]

\* ------------------------------------------------------- stock_cache.py

\* Mutant: the cache key leaves out the date.
StockKeyUndated(s) == <<Upper(s), 0>>

\* _get_stock_cache_key with _get_today_date: the symbol is upper-cased.
StockKey(s) == <<Upper(s), DateOf(now)>>

\* _get_cache_expiry: int() of the seconds until the next UTC midnight.
CacheExpiry == ((DateOf(now) + 1) * TicksPerDay - now) \div TicksPerSec

\* get_cached_analysis: the payload, or None; None also when the Redis call
\* raises (lines 91-93).
CachedAnalysis(s) ==
  IF redisUp /\ Live(cache[StockKey(s)]) THEN cache[StockKey(s)].payload ELSE NoData

\* analyze_stock lines 618-625: the value under "ai_analysis"; without a
\* client the key is not set, when the call raises it holds the marker
\* {"error": "AI analysis unavailable"}.
AIAnalysis ==
  IF ~client THEN "none" ELSE IF aiUp THEN "analysis" ELSE "unavailable"

\* analyze_stock lines 612-629: the full analysis request p has computed for
\* symbol s; two requests fetch and compute their own.
FullData(p, s) ==
  [symbol |-> Upper(s), by |-> p, type |-> "both",
   parts |-> {"technical_data", "rule_analysis"}
             \cup (IF AIAnalysis # "none" THEN {"ai_analysis"} ELSE {}),
   ai |-> AIAnalysis]

\* filter_analysis_by_type: the view of analysis d for requested type t.
FilterByType(d, t) ==
  [symbol |-> d.symbol, by |-> d.by, type |-> t,
   parts |-> (d.parts \cap {"technical_data"})
             \cup (IF t \in {"ai", "both"} THEN d.parts \cap {"ai_analysis"} ELSE {})
             \cup (IF t \in {"technical", "both"} THEN d.parts \cap {"rule_analysis"} ELSE {}),
   ai |-> IF t \in {"ai", "both"} THEN d.ai ELSE "none"]

\* Mutant: a fetch that found no data is not noticed.
AfterFetchIgnored(ok) == "store"

\* get_technical_analysis lines 279-281 with analyze_stock lines 648-653:
\* where the request goes after the fetch.
AfterFetch(ok) == IF ok THEN "store" ELSE "done"

\* Mutant: clear_user_cache deletes the list and leaves the entries.
ClearedKeysNone(items) == {}

\* clear_user_cache lines 145-148: the cache_key of every entry of the list.
ClearedKeys(items) == {items[i].key : i \in 1..Len(items)}

\* get_todays_searches: the list under today's key, or []; [] also when the
\* Redis call raises (lines 109-111).
TodaysSearches ==
  IF redisUp /\ Live(slist[DateOf(now)]) THEN slist[DateOf(now)].items ELSE <<>>

\* Mutant: store_stock_analysis lets the Redis exception through.
StoreErrorRaised == "raised"

\* store_stock_analysis lines 73-75: an exception of a Redis call is logged
\* and the store returns False.
StoreError == "false"

\* What a failed store leaves of request p: analyze_stock ignores the False
\* (line 632); an exception would reach the handler of lines 654-659.
StoreFails(p, why) ==
  /\ did' = [did EXCEPT ![p] = did[p] \cup {"storefail"} \cup why]
  /\ IF StoreError = "false"
       THEN /\ pc' = [pc EXCEPT ![p] = "status"]
            /\ UNCHANGED <<usr, sym, stv, full, resp, after>>
       ELSE /\ Return(p)
            /\ resp' = [resp EXCEPT ![p] =
                  [success |-> FALSE, error |-> "internal", data |-> NoData,
                   info |-> NoInfo]]

\* ------------------------------------------------------------ search.py

\* Mutant: the log line of the cache-hit branch names stock_request.symbol.
HitLogWorks == FALSE

\* analyze_stock line 583 evaluates request.symbol on the Starlette Request,
\* which has no such attribute: the cache-hit branch raises AttributeError.
HitLogRaises == TRUE

\* Mutant: the result of the quota check is ignored.
AfterCheckIgnored(can) == "fetch"

\* analyze_stock line 600: where the request goes after the quota check.
AfterCheck(can) == IF can THEN "fetch" ELSE "denied"

\* The one-time codes of one email address (services/otp.py).  A code is
\* stored under otp:<email> as its salted hash with its salt, the time it was
\* created and the number of failed attempts; the key lives OtpLife ticks.
Codes == {"111", "222"}
Salts == {"s1", "s2"}
MaxAttempts == 5
OtpLife == 2
MaxVerifies == 3

\* _hash_otp: SHA-256 of otp + salt, taken as free of collisions.
HashOtp(code, salt) == <<"sha256", code, salt>>

NoOtp == [otp_hash |-> <<"none">>, salt |-> "none", created_at |-> -1,
          attempts |-> 0, exp |-> 0]

\* store_otp lines 42-58: what SETEX puts under the key at time t.
StoredOtp(code, salt, t) ==
  [otp_hash |-> HashOtp(code, salt), salt |-> salt, created_at |-> t,
   attempts |-> 0, exp |-> t + OtpLife]

NoResult == [ok |-> FALSE, message |-> "none", remaining |-> 0]

\* A verify_otp call that has not begun.
NoVerify ==
  [pc |-> "idle", provided |-> "none", attempts |-> 0, data |-> NoOtp,
   ttl |-> 0, res |-> NoResult, late |-> FALSE, gen |-> 0, legit |-> FALSE]

\* No code has been issued and no call is under way.
OtpIdle ==
  /\ otp = NoOtp
  /\ vc = [p \in Procs |-> NoVerify]
  /\ rs = "idle"
  /\ olog = [gen |-> 0, issued |-> "none", valid |-> "none", wrong |-> 0,
             calls |-> 0]

\* No request has begun, Redis holds no key of the user.
InitIdle ==
  /\ now = 0
  /\ cache = [k \in UpperSymbols \X Days |-> NoEntry]
  /\ slist = [d \in Days |-> NoList]
  /\ pc = [p \in Procs |-> "idle"]
  /\ usr = [p \in Procs |-> NoUser]
  /\ sym = [p \in Procs |-> "INFY"]
  /\ ci = [p \in Procs |-> NoCI]
  /\ stv = [p \in Procs |-> NoStore]
  /\ resp = [p \in Procs |-> NoResp]
  /\ did = [p \in Procs |-> {}]
  /\ after = [p \in Procs |-> -1]
  /\ admittedToday = IF dbDate = 0 THEN dbCount ELSE 0
  /\ completed = {}
  /\ firstStore = [s \in UpperSymbols |-> -1]
  /\ full = [p \in Procs |-> NoData]

InitRequests ==
  /\ InitIdle
  /\ OtpIdle
  /\ arg = NoCall
  /\ ret = NoCall

\* The user's row is near the limit, dated today, yesterday or not at all;
\* every collaborator works.
Init ==
  /\ dbCount \in {DAILY_LIMIT - 1, DAILY_LIMIT}
  /\ dbDate \in {NoDate, -1, 0}
  /\ client = TRUE
  /\ aiUp = TRUE
  /\ redisUp = TRUE
  /\ dbUp = TRUE
  /\ InitRequests

\* analyze_stock, lines 570-595: the user is loaded for the request, then the
\* cache lookup; a hit runs the cache-hit branch.  analysis_type t is read once
\* on each path, here on a hit and in Respond on a miss.
AnalyzeLookup(p, s, t) ==
  /\ pc[p] = "idle"
  /\ \A q \in Procs : q < p => pc[q] # "idle"
  /\ LET u == [count |-> dbCount, date |-> dbDate]
     IN IF CachedAnalysis(s) # NoData
          THEN /\ did' = [did EXCEPT ![p] = {"hit"}]
               /\ Return(p)
               /\ IF HitLogRaises
                    THEN /\ resp' = [resp EXCEPT ![p] =
                               [success |-> FALSE, error |-> "internal", data |-> NoData, info |-> NoInfo]]
                         /\ UNCHANGED dbVars
                    ELSE StatusStep(p, u, [success |-> TRUE, error |-> "",
                                           data |-> FilterByType(CachedAnalysis(s), t),
                                           info |-> NoInfo])
          ELSE /\ pc' = [pc EXCEPT ![p] = "check"]
               /\ usr' = [usr EXCEPT ![p] = u]
               /\ sym' = [sym EXCEPT ![p] = Upper(s)]
               /\ after' = [after EXCEPT ![p] =
                     IF Upper(s) \in completed THEN DateOf(now) ELSE -1]
               /\ UNCHANGED <<resp, dbVars, did, stv, full>>
  /\ UNCHANGED <<now, redisVars, ci, ghostVars, envVars, callVars, otpVars>>

\* Noted when check_and_increment_search_count is entered: the record it is
\* given, as loaded for the request, is dated on an earlier UTC day than today.
Stale(p) ==
  IF pc[p] = "check" /\ usr[p].date # NoDate /\ usr[p].date < DateOf(now)
    THEN {"stale"} ELSE {}

\* check_and_increment_search_count, line 25: the day reset and its commit.
\* When the commit raises, _reset_daily_count_if_needed logs it and returns
\* (lines 55-57); the object keeps the values assigned to it.
CheckReset(p) ==
  /\ pc[p] = "check"
  /\ NeedsReset(usr[p])
  /\ usr' = [usr EXCEPT ![p] = ResetUser(usr[p])]
  /\ IF dbUp
       THEN /\ dbCount' = ResetUser(usr[p]).count
            /\ dbDate' = ResetUser(usr[p]).date
       ELSE UNCHANGED dbVars
  /\ pc' = [pc EXCEPT ![p] = "limit"]
  /\ did' = [did EXCEPT ![p] = did[p] \cup {"reset"} \cup Stale(p)
                                       \cup (IF dbUp THEN {} ELSE {"resetfail"})]
  /\ UNCHANGED <<now, redisVars, sym, ci, stv, full, resp, after, ghostVars, envVars, callVars, otpVars>>

\* check_and_increment_search_count, lines 27-36: the limit check, the
\* increment and its commit; then analyze_stock line 600.  The commit writes
\* what the request has assigned and not yet written; when it raises, lines
\* 38-40 return (False, ..., 0).
CheckLimit(p) ==
  /\ \/ pc[p] = "limit"
     \/ pc[p] = "check" /\ ~NeedsReset(usr[p])
  /\ IF AtLimit(usr[p])
       THEN /\ ci' = [ci EXCEPT ![p] = [can |-> FALSE, remaining |-> 0]]
            /\ pc' = [pc EXCEPT ![p] = AfterCheck(FALSE)]
            /\ did' = [did EXCEPT ![p] = did[p] \cup {"checked"} \cup Stale(p)]
            /\ UNCHANGED <<usr, dbVars, admittedToday>>
       ELSE LET u2 == Incremented(usr[p])
            IN /\ usr' = [usr EXCEPT ![p] = u2]
               /\ IF dbUp
                    THEN /\ dbCount' = u2.count
                         /\ dbDate' = IF "resetfail" \in did[p] THEN u2.date ELSE dbDate
                         /\ ci' = [ci EXCEPT ![p] =
                               [can |-> TRUE, remaining |-> DAILY_LIMIT - u2.count]]
                         /\ pc' = [pc EXCEPT ![p] = AfterCheck(TRUE)]
                         /\ admittedToday' = admittedToday + 1
                         /\ did' = [did EXCEPT ![p] =
                               did[p] \cup {"checked"} \cup Stale(p)]
                    ELSE /\ ci' = [ci EXCEPT ![p] = [can |-> FALSE, remaining |-> 0]]
                         /\ pc' = [pc EXCEPT ![p] = AfterCheck(FALSE)]
                         /\ did' = [did EXCEPT ![p] =
                               did[p] \cup {"checked", "incrfail"} \cup Stale(p)]
                         /\ UNCHANGED <<dbVars, admittedToday>>
  /\ UNCHANGED <<now, redisVars, sym, stv, full, resp, after, completed, firstStore,
                 envVars, callVars, otpVars>>

\* analyze_stock, lines 600-606: the quota-exceeded response.
Denied(p) ==
  /\ pc[p] = "denied"
  /\ StatusStep(p, usr[p], [success |-> FALSE, error |-> "quota",
                            data |-> NoData, info |-> NoInfo])
  /\ Return(p)
  /\ UNCHANGED <<now, redisVars, ci, did, ghostVars, envVars, callVars, otpVars>>

\* analyze_stock, lines 609-629: get_technical_analysis fetches the series; with
\* no data for any variant it raises ValueError (lines 280-281, 648-653);
\* with data the full analysis is built.
Fetch(p) ==
  /\ pc[p] = "fetch"
  /\ \E ok \in BOOLEAN :
       /\ did' = [did EXCEPT ![p] =
                    did[p] \cup {"fetch"} \cup (IF ok THEN {} ELSE {"nodata"})]
       /\ IF AfterFetch(ok) = "done"
            THEN /\ Return(p)
                 /\ resp' = [resp EXCEPT ![p] =
                       [success |-> FALSE, error |-> "invalid",
                        data |-> NoData, info |-> NoInfo]]
            ELSE /\ pc' = [pc EXCEPT ![p] = AfterFetch(ok)]
                 /\ full' = [full EXCEPT ![p] = FullData(p, sym[p])]
                 /\ UNCHANGED <<resp, usr, sym, stv, after>>
  /\ UNCHANGED <<now, dbVars, redisVars, ci, ghostVars, envVars, callVars, otpVars>>

\* store_stock_analysis, lines 34-36: the date, the cache key and the expiry
\* are computed from the clock.
StoreBegin(p) ==
  /\ pc[p] = "store"
  /\ stv' = [stv EXCEPT ![p] =
        [NoStore EXCEPT !.date = DateOf(now), !.key = StockKey(sym[p]),
                        !.expiry = CacheExpiry]]
  /\ pc' = [pc EXCEPT ![p] = "setex"]
  /\ UNCHANGED <<now, dbVars, redisVars, usr, sym, ci, full, resp, did, after,
                 ghostVars, envVars, callVars, otpVars>>

\* store_stock_analysis, lines 39-43: the entry is written with SETEX, which
\* rejects a time-to-live of 0; the exception makes the store return False.
StoreEntry(p) ==
  /\ pc[p] = "setex"
  /\ IF ~redisUp \/ stv[p].expiry <= 0
       THEN /\ StoreFails(p, IF redisUp THEN {} ELSE {"outage"})
            /\ UNCHANGED cache
       ELSE /\ cache' = [cache EXCEPT ![stv[p].key] =
                 [payload |-> full[p], day |-> stv[p].date,
                  exp |-> now + stv[p].expiry * TicksPerSec]]
            /\ pc' = [pc EXCEPT ![p] = "list"]
            /\ UNCHANGED <<usr, sym, stv, full, resp, did, after>>
  /\ UNCHANGED <<now, dbVars, slist, ci, ghostVars, envVars, callVars, otpVars>>

\* store_stock_analysis, lines 53-56: the user's list of today is read (a
\* read that fails gives the empty list).
StoreListRead(p) ==
  /\ pc[p] = "list"
  /\ stv' = [stv EXCEPT ![p].existing = TodaysSearches]
  /\ pc' = [pc EXCEPT ![p] = "listw"]
  /\ UNCHANGED <<now, dbVars, redisVars, usr, sym, ci, full, resp, did, after,
                 ghostVars, envVars, callVars, otpVars>>

\* store_stock_analysis, lines 45-51 and 58-71: unless the list that was read
\* names the symbol, the list with the entry appended is written back.  The
\* entry carries the time of this write as its timestamp.
StoreList(p) ==
  /\ pc[p] = "listw"
  /\ LET existing == stv[p].existing
         entry == [symbol |-> Upper(sym[p]), timestamp |-> now, key |-> stv[p].key]
         exists == \E i \in 1..Len(existing) : existing[i].symbol = Upper(sym[p])
     IN IF ~exists /\ ~redisUp
          THEN /\ StoreFails(p, {"outage"})
               /\ UNCHANGED <<slist, firstStore>>
          ELSE /\ IF exists
                    THEN UNCHANGED slist
                    ELSE slist' = [slist EXCEPT ![stv[p].date] =
                                     [items |-> Append(existing, entry),
                                      exp |-> now + stv[p].expiry * TicksPerSec]]
               /\ did' = [did EXCEPT ![p] = did[p] \cup {"store"}]
               /\ pc' = [pc EXCEPT ![p] = "status"]
               /\ firstStore' = IF stv[p].date = DateOf(now) /\ firstStore[sym[p]] = -1
                                  THEN [firstStore EXCEPT ![sym[p]] = now]
                                  ELSE firstStore
               /\ UNCHANGED <<usr, sym, stv, full, resp, after>>
  /\ UNCHANGED <<now, dbVars, cache, ci, admittedToday, completed, envVars, callVars, otpVars>>

\* analyze_stock, lines 634-646: the successful response.
Respond(p, t) ==
  /\ pc[p] = "status"
  /\ StatusStep(p, usr[p], [success |-> TRUE, error |-> "",
                            data |-> FilterByType(full[p], t),
                            info |-> NoInfo])
  /\ Return(p)
  /\ completed' = IF "store" \in did[p] /\ stv[p].date = DateOf(now)
                    THEN completed \cup {sym[p]}
                    ELSE completed
  /\ UNCHANGED <<now, redisVars, ci, did, admittedToday, firstStore, envVars, callVars, otpVars>>

\* GET /search-status: get_user_search_status on a freshly loaded user.
GetSearchStatus ==
  /\ dbUp
  /\ NeedsReset([count |-> dbCount, date |-> dbDate])
  /\ dbCount' = 0
  /\ dbDate' = DateOf(now)
  /\ UNCHANGED <<now, redisVars, pc, usr, sym, ci, stv, full, resp, did, after,
                 ghostVars, envVars, callVars, otpVars>>

\* reset_user_search_count on a freshly loaded user.
AdminReset ==
  /\ dbUp
  /\ dbCount' = 0
  /\ dbDate' = DateOf(now)
  /\ admittedToday' = 0
  /\ UNCHANGED <<now, redisVars, pc, usr, sym, ci, stv, full, resp, did, after,
                 completed, firstStore, envVars, callVars, otpVars>>

\* clear_user_cache: today's list is read, the entries it names are deleted,
\* then the list.  With Redis unreachable nothing is deleted (lines 156-158).
ClearCache ==
  /\ redisUp
  /\ cache' = [k \in DOMAIN cache |->
                 IF k \in ClearedKeys(TodaysSearches) THEN NoEntry ELSE cache[k]]
  /\ slist' = [slist EXCEPT ![DateOf(now)] = NoList]
  /\ completed' = {}
  /\ firstStore' = [s \in UpperSymbols |-> -1]
  /\ UNCHANGED <<now, dbVars, pc, usr, sym, ci, stv, full, resp, did, after,
                 admittedToday, envVars, callVars, otpVars>>

\* The clock advances one tick; Redis drops the keys whose time has run out.
Tick ==
  /\ now < MaxTick
  /\ now' = now + 1
  /\ cache' = [k \in DOMAIN cache |-> IF cache[k].exp > now + 1 THEN cache[k] ELSE NoEntry]
  /\ slist' = [d \in DOMAIN slist |-> IF slist[d].exp > now + 1 THEN slist[d] ELSE NoList]
  /\ IF DateOf(now + 1) > DateOf(now)
       THEN /\ admittedToday' = 0
            /\ completed' = {}
            /\ firstStore' = [s \in UpperSymbols |-> -1]
       ELSE UNCHANGED ghostVars
  /\ UNCHANGED <<dbVars, pc, usr, sym, ci, stv, full, resp, did, after, envVars, callVars, otpVars>>

\* The steps of the analyze requests, each sending an analysis_type of T.
Analyze(T) ==
  \/ \E p \in Procs, s \in Symbols, t \in T : AnalyzeLookup(p, s, t)
  \/ \E p \in Procs : CheckReset(p)
  \/ \E p \in Procs : CheckLimit(p)
  \/ \E p \in Procs : Denied(p)
  \/ \E p \in Procs : Fetch(p)
  \/ \E p \in Procs : StoreBegin(p)
  \/ \E p \in Procs : StoreEntry(p)
  \/ \E p \in Procs : StoreListRead(p)
  \/ \E p \in Procs : StoreList(p)
  \/ \E p \in Procs, t \in T : Respond(p, t)

\* The requests leave analysis_type out.
Next ==
  \/ Analyze(DefaultTypes)
  \/ GetSearchStatus
  \/ AdminReset
  \/ ClearCache
  \/ Tick

Spec == Init /\ [][Next]_vars

\* Requests that each send any analysis_type, by a user with one search left
\* today.
InitAnyType ==
  /\ dbCount = DAILY_LIMIT - 1
  /\ dbDate = 0
  /\ client = TRUE
  /\ aiUp = TRUE
  /\ redisUp = TRUE
  /\ dbUp = TRUE
  /\ InitRequests

NextAnyType ==
  \/ Analyze(AnalysisTypes)
  \/ Tick

SpecAnyType == InitAnyType /\ [][NextAnyType]_vars

\* The OpenAI client may be missing (OPENAI_API_KEY not set, lines 142-153),
\* and the OpenAI call fails or works from one call to the next.
InitAI ==
  /\ dbCount = DAILY_LIMIT - 1
  /\ dbDate = 0
  /\ client \in BOOLEAN
  /\ aiUp \in BOOLEAN
  /\ redisUp = TRUE
  /\ dbUp = TRUE
  /\ InitRequests

AIChanges ==
  /\ client
  /\ aiUp' = ~aiUp
  /\ UNCHANGED <<now, dbVars, redisVars, pc, usr, sym, ci, stv, full, resp, did,
                 after, ghostVars, client, redisUp, dbUp, callVars, otpVars>>

NextAI ==
  \/ Analyze(AnalysisTypes)
  \/ AIChanges
  \/ Tick

SpecAI == InitAI /\ [][NextAI]_vars

\* Redis becomes unreachable and reachable again at any moment.
InitRedis ==
  /\ dbCount = DAILY_LIMIT - 1
  /\ dbDate = 0
  /\ client = TRUE
  /\ aiUp = TRUE
  /\ redisUp \in BOOLEAN
  /\ dbUp = TRUE
  /\ InitRequests

RedisChanges ==
  /\ redisUp' = ~redisUp
  /\ UNCHANGED <<now, dbVars, redisVars, pc, usr, sym, ci, stv, full, resp, did,
                 after, ghostVars, client, aiUp, dbUp, callVars, otpVars>>

NextRedis ==
  \/ Analyze(DefaultTypes)
  \/ RedisChanges
  \/ ClearCache
  \/ Tick

SpecRedis == InitRedis /\ [][NextRedis]_vars

\* The database becomes unreachable and reachable again at any moment.
InitDb ==
  /\ dbCount \in {DAILY_LIMIT - 1, DAILY_LIMIT}
  /\ dbDate \in {-1, 0}
  /\ client = TRUE
  /\ aiUp = TRUE
  /\ redisUp = TRUE
  /\ dbUp \in BOOLEAN
  /\ InitRequests

DbChanges ==
  /\ dbUp' = ~dbUp
  /\ UNCHANGED <<now, dbVars, redisVars, pc, usr, sym, ci, stv, full, resp, did,
                 after, ghostVars, client, aiUp, redisUp, callVars, otpVars>>

NextDb ==
  \/ Analyze(DefaultTypes)
  \/ DbChanges
  \/ Tick

SpecDb == InitDb /\ [][NextDb]_vars

\* ------------------------------------------------------------- claims

\* Request p's check_and_increment_search_count call returns in this step.
CallReturns(p) == "checked" \notin did[p] /\ "checked" \in did'[p]

\* Request p's cache lookup is a hit in this step.
CacheHit(p) == "hit" \notin did[p] /\ "hit" \in did'[p]

\* C1: for one user within one UTC day, under any interleaving of concurrent
\* check_and_increment calls, at most DAILY_LIMIT calls return allowed.
C1_AtMostLimitAdmitted == admittedToday <= DAILY_LIMIT

\* C2: in every state reached by check_and_increment, get_status, the
\* administrator's reset and day rollovers, the stored count is in 0..10.
C2_CountInRange == dbCount \in 0..DAILY_LIMIT

C2_Witness ==
  \E p \in Procs : "checked" \in did[p] /\ ci[p].can /\ dbCount = DAILY_LIMIT

\* C3: once DAILY_LIMIT calls have returned allowed on a UTC day, every further
\* call of that day returns not allowed with remaining 0.
C3_RefusedAfterLimit ==
  [][\A p \in Procs :
       (CallReturns(p) /\ admittedToday = DAILY_LIMIT)
         => (~ci'[p].can /\ ci'[p].remaining = 0)]_vars

\* C4: a check_and_increment call given a record dated on an earlier UTC day
\* (whatever its count) returns allowed with remaining 9 and leaves the stored
\* count at 1.
C4_FirstCallOfNewDay ==
  [][\A p \in Procs :
       (CallReturns(p) /\ "stale" \in did'[p])
         => (ci'[p] = [can |-> TRUE, remaining |-> DAILY_LIMIT - 1] /\ dbCount' = 1)]_vars

C4_Witness ==
  \E p \in Procs : /\ {"stale", "checked"} \subseteq did[p]
                    /\ pc[p] = "fetch"
                    /\ DateOf(now) = 1
                    /\ dbCount = 1

C6_CachedAtLimitSucceeds ==
  [][\A p \in Procs :
       (CacheHit(p) /\ dbCount = DAILY_LIMIT /\ dbDate = DateOf(now))
         => (resp'[p].success /\ dbCount' = DAILY_LIMIT)]_vars

\* C7: after an analyze of a symbol completed through fetch, compute and
\* store, a later analyze of the symbol (in any letter case) on the same UTC
\* day neither fetches market data nor increases the count.
C7_NoRefetchSameDay ==
  \A p \in Procs :
    after[p] = DateOf(now)
      => ("fetch" \notin did[p] /\ ~("checked" \in did[p] /\ ci[p].can))

\* C8: when check_and_increment returns not allowed, the request fetches
\* nothing, stores nothing and returns a failure.
C8_RefusedDoesNothing ==
  \A p \in Procs :
    ("checked" \in did[p] /\ ~ci[p].can)
      => /\ did[p] \cap {"fetch", "store"} = {}
         /\ pc[p] \in {"denied", "done"}
         /\ pc[p] = "done" => ~resp[p].success

C8_Witness ==
  \E p \in Procs : pc[p] = "done" /\ "checked" \in did[p] /\ resp[p].error = "quota"

\* C9: a check_and_increment call that finds count >= limit changes nothing in
\* the stored record, in any of its steps.
C9_RefusalWritesNothing ==
  [][\A p \in Procs :
       (CallReturns(p) /\ ~ci'[p].can)
         => (dbCount' = dbCount /\ dbDate' = dbDate /\ "reset" \notin did[p])]_vars

C9_Witness == \E p \in Procs : pc[p] = "denied" /\ usr[p].count >= DAILY_LIMIT

\* C10: a check_and_increment call that finds count < limit raises the stored
\* count by exactly 1 and returns allowed with remaining = 10 - the new count.
C10_IncrementByOne ==
  [][\A p \in Procs :
       (CallReturns(p) /\ ci'[p].can)
         => (dbCount' = dbCount + 1 /\ ci'[p].remaining = DAILY_LIMIT - dbCount')]_vars

\* Request p's get_user_search_status or check_and_increment_search_count runs
\* the lazy day reset in this step: the count is set to 0 and committed.
LazyReset(p) ==
  /\ pc[p] \in {"check", "denied", "status"}
  /\ pc'[p] # pc[p]
  /\ NeedsReset(usr[p])

\* C11: around a UTC-day rollover, under any interleaving of the user's
\* requests, the count is reset once for the new day, by the first access
\* after the rollover: a lazy reset happens only while the stored record is
\* dated on an earlier day and no search has been admitted on the new day.
C11_ResetOncePerDay ==
  [][\A p \in Procs :
       LazyReset(p) => (dbDate < DateOf(now) /\ admittedToday = 0)]_vars

\* An access of request p to the quota record returns in this step: its
\* check_and_increment_search_count or its get_user_search_status.
AccessReturns(p) ==
  \/ CallReturns(p)
  \/ pc[p] \in {"denied", "status"} /\ pc'[p] = "done"

\* C12: after any access to the user's quota record the record's reset date is
\* the current UTC day, whatever the initial record, a missing date included.
C12_DateIsTodayAfterAccess ==
  [][\A p \in Procs : AccessReturns(p) => dbDate' = DateOf(now)]_vars

\* Request p's get_user_search_status call returns in this step.
StatusReturns(p) == pc[p] \in {"denied", "status"} /\ pc'[p] = "done"

StoreReturns(p) == pc[p] = "setex" /\ pc'[p] # "setex"

\* C14: within one UTC day a store followed by a get of the same symbol, in
\* any letter case, with no store or clear of the key in between, returns the
\* stored payload: right after the store, and for the rest of the day.
C14_StoreThenGet ==
  [][/\ \A p \in Procs :
          (StoreReturns(p) /\ stv[p].date = DateOf(now))
            => \A s \in Symbols :
                 Upper(s) = sym[p] => CachedAnalysis(s)' = full[p]
     /\ \A s \in Symbols :
          (now' # now /\ DateOf(now') = DateOf(now) /\ CachedAnalysis(s) # NoData)
            => CachedAnalysis(s)' = CachedAnalysis(s)]_vars

\* C15: after a UTC-midnight rollover get returns nothing that was stored on
\* an earlier day, and the list of today holds no entry of an earlier day.
C15_MissAfterRollover ==
  /\ \A s \in Symbols :
       CachedAnalysis(s) # NoData => cache[StockKey(s)].day = DateOf(now)
  /\ \A i \in 1..Len(TodaysSearches) :
       DateOf(TodaysSearches[i].timestamp) = DateOf(now)

C15_Witness ==
  /\ DateOf(now) = 1
  /\ \E s \in UpperSymbols :
       /\ cache[<<s, 0>>] # NoEntry
       /\ cache[<<s, 0>>].exp > now
       /\ CachedAnalysis(s) = NoData

\* C16: once an entry exists for a key its payload never changes until it
\* expires or is cleared, also when concurrent cache-miss requests for the
\* key each reach store.
C16_EntryNeverRewritten ==
  [][\A k \in DOMAIN cache :
       (cache[k] # NoEntry /\ cache'[k] # NoEntry)
         => cache'[k].payload = cache[k].payload]_vars

\* C17: the list of today has at most one entry per upper-cased symbol, in the
\* order of the first stores, each with the time of the first store of its
\* symbol today.
C17_ListOfFirstStores ==
  LET L == TodaysSearches
  IN /\ \A i, j \in 1..Len(L) :
          i < j => /\ L[i].symbol # L[j].symbol
                   /\ firstStore[L[i].symbol] <= firstStore[L[j].symbol]
     /\ \A i \in 1..Len(L) : L[i].timestamp = firstStore[L[i].symbol]

\* C18: when clear_user_cache returns, the list of today is empty and get
\* misses for every symbol that was in the list before the call.
C18_ClearEmpties ==
  [][ClearCache =>
       /\ TodaysSearches' = <<>>
       /\ \A i \in 1..Len(TodaysSearches) :
            \A s \in Symbols :
              Upper(s) = TodaysSearches[i].symbol => CachedAnalysis(s)' = NoData]_vars

C18_Witness ==
  /\ now = 0
  /\ \E p \in Procs :
       /\ pc[p] = "status" /\ "store" \in did[p]
       /\ TodaysSearches = <<>>
       /\ cache[stv[p].key] = NoEntry
\* Request p's fetch finds no data for any symbol variant in this step.
FetchFails(p) == "nodata" \notin did[p] /\ "nodata" \in did'[p]

\* C19: when no symbol variant yields data the request returns a failure,
\* writes no cache entry and no list entry, and the quota unit it took is not
\* given back: the stored count is left as the request's increment set it.
C19_NoDataKeepsQuota ==
  [][\A p \in Procs :
       FetchFails(p) =>
         /\ pc'[p] = "done"
         /\ ~resp'[p].success /\ resp'[p].error = "invalid"
         /\ cache' = cache /\ slist' = slist
         /\ ci[p].can /\ dbCount' = dbCount /\ dbDate' = dbDate]_vars

C19_Witness ==
  \E p \in Procs :
    /\ pc[p] = "done" /\ "nodata" \in did[p]
    /\ resp[p].error = "invalid" /\ "store" \notin did[p]
    /\ ci[p] = [can |-> TRUE, remaining |-> 0]
    /\ dbCount = DAILY_LIMIT

\* Every live entry of today was stored by an analyze that has returned.
AllStoredCompleted ==
  \A s \in Symbols : CachedAnalysis(s) # NoData => Upper(s) \in completed

\* C20: the entry a cache-miss analyze stores holds the technical data, the
\* rule analysis and the AI analysis with analysis_type "both", whatever type
\* was requested, and once that analyze has succeeded a later same-day
\* request for any type is answered with the view of that entry for its type.
C20_FullEntryServesAnyType ==
  [][/\ \A k \in DOMAIN cache :
          cache'[k] # NoEntry
            => /\ cache'[k].payload.type = "both"
               /\ {"technical_data", "rule_analysis"} \subseteq cache'[k].payload.parts
     /\ \A p \in Procs :
          (CacheHit(p) /\ AllStoredCompleted)
            => /\ resp'[p].success
               /\ \E s \in Symbols, t \in AnalysisTypes :
                    /\ CachedAnalysis(s) # NoData
                    /\ resp'[p].data = FilterByType(CachedAnalysis(s), t)]_vars

\* The value under "ai_analysis" is the narrative or the explicit marker.
Narrated(d) == d.ai \in {"analysis", "unavailable"}

\* C21: when the AI narrative is not obtained during a cache-miss analyze
\* (the call fails, or no client is available), the request still succeeds,
\* and the payload it builds and stores and every response of type "ai" or
\* "both" carry the "AI analysis unavailable" marker in its place.
C21_NarrativeMarker ==
  /\ \A p \in Procs :
       /\ full[p] # NoData => Narrated(full[p])
       /\ (pc[p] = "done" /\ "fetch" \in did[p] /\ "nodata" \notin did[p])
            => /\ resp[p].success
               /\ resp[p].data.type \in {"ai", "both"} => Narrated(resp[p].data)
  /\ \A k \in DOMAIN cache : cache[k] # NoEntry => Narrated(cache[k].payload)

\* The next step of the store of request p is a write to Redis: the entry, or
\* the list when the list that was read does not name the symbol.
StoreWrites(p) ==
  \/ pc[p] = "setex"
  \/ /\ pc[p] = "listw"
     /\ \A i \in 1..Len(stv[p].existing) :
          stv[p].existing[i].symbol # Upper(sym[p])

\* C22: while Redis is unreachable the cache lookup of a request is a miss, a
\* store that reaches a write ends as a failure that is reported and not
\* raised (nothing is written, the request goes on), and a request that was
\* admitted and has its data returns a successful result.
C22_CacheOutageAbsorbed ==
  [][\A p \in Procs :
       /\ (~redisUp /\ pc[p] = "idle" /\ pc'[p] # "idle") => pc'[p] = "check"
       /\ (~redisUp /\ pc[p] \in {"setex", "listw"} /\ pc'[p] # pc[p])
            => /\ pc'[p] = "status"
               /\ StoreWrites(p) => "storefail" \in did'[p]
               /\ cache' = cache /\ slist' = slist
       /\ (pc[p] # "done" /\ pc'[p] = "done"
             /\ "fetch" \in did'[p] /\ "nodata" \notin did'[p])
            => resp'[p].success]_vars

C22_Witness ==
  \E p \in Procs :
    /\ pc[p] = "done" /\ "outage" \in did[p]
    /\ ci[p].can /\ resp[p].success
\* A commit of check_and_increment_search_count has failed for request p.
QuotaWriteFailed(p) == "resetfail" \in did[p] \/ "incrfail" \in did[p]

Mantissa == 53
FracDigits == 60

Zeros(n) == [i \in 1..n |-> 0]

Pad(digits) == digits \o Zeros(FracDigits - Len(digits))

\* The position of the leading 1 of r/d, for 0 < r < 2*d.
RECURSIVE Lead(_, _)
Lead(r, d) == IF r >= d THEN 1 ELSE 1 + Lead(2 * r, d)

\* Long division: the first n >= 1 digits of r/d and twice the remainder then
\* left.  The digits are produced in two halves, the second from the
\* remainder of the first.
RECURSIVE DivDigits(_, _, _)
DivDigits(r, d, n) ==
  IF n = 1
  THEN LET b == IF r >= d THEN 1 ELSE 0
       IN  [digits |-> <<b>>, rem |-> 2 * (r - b * d)]
  ELSE LET left  == DivDigits(r, d, n \div 2)
           right == DivDigits(left.rem, d, n - (n \div 2))
       IN  [digits |-> left.digits \o right.digits, rem |-> right.rem]

\* One unit in the last place more.
Inc(digits) ==
  LET n  == Len(digits)
      zs == {i \in 1..n : digits[i] = 0}
      j  == IF zs = {} THEN 0 ELSE CHOOSE i \in zs : \A k \in zs : k <= i
  IN  [i \in 1..n |-> IF i < j THEN digits[i] ELSE IF i = j THEN 1 ELSE 0]

\* x / y of two exactly represented numbers a and d, 0 <= a <= d, d > 0:
\* the quotient correctly rounded.
FloatDiv(a, d) ==
  IF a = 0 THEN Zeros(FracDigits)
  ELSE LET n  == Lead(a, d) + Mantissa - 1
           q  == DivDigits(a, d, n)
           up == q.rem > d \/ (q.rem = d /\ q.digits[n] = 1)
       IN  Pad(IF up THEN Inc(q.digits) ELSE q.digits)

FloatLess(x, y) ==
  \E i \in 1..FracDigits :
    /\ x[i] < y[i]
    /\ \A j \in 1..(i - 1) : x[j] = y[j]

\* The borrow out of digit i when y is subtracted from x: the digits of x
\* from i on are a smaller number than those of y.
Borrow(x, y, i) ==
  IF \E j \in i..FracDigits :
       /\ x[j] < y[j]
       /\ \A k \in i..(j - 1) : x[k] = y[k]
  THEN 1 ELSE 0

\* The exact difference x - y, for y <= x.
ExactSub(x, y) ==
  [i \in 1..FracDigits |-> (x[i] - y[i] - Borrow(x, y, i + 1)) % 2]

\* An exact value rounded to a float.
RoundDigits(z) ==
  LET ones == {i \in 1..FracDigits : z[i] = 1}
      l    == IF ones = {} THEN 0 ELSE CHOOSE i \in ones : \A k \in ones : i <= k
      last == l + Mantissa - 1
  IN  IF l = 0 \/ last >= FracDigits THEN z
      ELSE LET kept == [i \in 1..last |-> z[i]]
               more == \E i \in (last + 2)..FracDigits : z[i] = 1
               up   == z[last + 1] = 1 /\ (more \/ z[last] = 1)
           IN  Pad(IF up THEN Inc(kept) ELSE kept)

\* abs(x - y)
FloatAbsDiff(x, y) ==
  IF FloatLess(x, y) THEN RoundDigits(ExactSub(y, x))
  ELSE RoundDigits(ExactSub(x, y))

\* The literals 0.6, 0.8 and 0.2 of the scorer.
Float06 == FloatDiv(3, 5)
Float08 == FloatDiv(4, 5)
Float02 == FloatDiv(1, 5)

\* ---------------------------------------------------------------------
\* get_rule_based_analysis.  buy_signals and sell_signals move in steps of
\* 0.5 and are counted in halves here: buy |-> 3 is buy_signals = 1.5.
\* volume_ratio is given in tenths (15 is 1.5).
NoSignals == [buy |-> 0, sell |-> 0, total |-> 0]

Vote(s, b, sl, n) ==
  [buy |-> s.buy + b, sell |-> s.sell + sl, total |-> s.total + n]

RsiStep(s, d) ==
  IF d.rsi > 70 THEN Vote(s, 0, 2, 1)
  ELSE IF d.rsi < 30 THEN Vote(s, 2, 0, 1)
  ELSE IF d.rsi > 60 THEN Vote(s, 1, 0, 1)
  ELSE IF d.rsi < 40 THEN Vote(s, 0, 1, 1)
  ELSE Vote(s, 0, 0, 1)

\* Mutant: macd = macd_signal votes with the buy side.
MacdStepTieBuys(s, d) ==
  IF d.macd >= d.macd_signal
  THEN (IF d.macd > 0 THEN Vote(s, 2, 0, 1) ELSE Vote(s, 1, 0, 1))
  ELSE (IF d.macd < 0 THEN Vote(s, 0, 2, 1) ELSE Vote(s, 0, 1, 1))

MacdStep(s, d) ==
  IF d.macd > d.macd_signal
  THEN (IF d.macd > 0 THEN Vote(s, 2, 0, 1) ELSE Vote(s, 1, 0, 1))
  ELSE (IF d.macd < 0 THEN Vote(s, 0, 2, 1) ELSE Vote(s, 0, 1, 1))

MovingAverageStep(s, d) ==
  IF d.current_price > d.sma_20 /\ d.sma_20 > d.sma_50 THEN Vote(s, 2, 0, 1)
  ELSE IF d.current_price < d.sma_20 /\ d.sma_20 < d.sma_50 THEN Vote(s, 0, 2, 1)
  ELSE IF d.current_price > d.sma_20 THEN Vote(s, 1, 0, 1)
  ELSE Vote(s, 0, 1, 1)

VolumeStep(s, d) ==
  IF d.volume_ratio > 15
  THEN (IF s.buy > s.sell THEN Vote(s, 1, 0, 1)
        ELSE IF s.sell > s.buy THEN Vote(s, 0, 1, 1)
        ELSE Vote(s, 0, 0, 1))
  ELSE IF d.volume_ratio < 5 THEN Vote(s, 0, 0, 1)
  ELSE s

\* Mutant: the daily momentum votes without being counted in the total.
DailyMomentumStepUncounted(s, d) ==
  IF d.price_change_1d > 2 THEN Vote(s, 1, 0, 0)
  ELSE IF d.price_change_1d < -2 THEN Vote(s, 0, 1, 0)
  ELSE s

DailyMomentumStep(s, d) ==
  IF d.price_change_1d > 2 THEN Vote(s, 1, 0, 1)
  ELSE IF d.price_change_1d < -2 THEN Vote(s, 0, 1, 1)
  ELSE s

WeeklyMomentumStep(s, d) ==
  IF d.price_change_5d > 5 THEN Vote(s, 1, 0, 1)
  ELSE IF d.price_change_5d < -5 THEN Vote(s, 0, 1, 1)
  ELSE s

\* The signal counts after each of the six steps, in the order of the code.
RECURSIVE SignalSteps(_, _)
SignalSteps(d, n) ==
  IF n = 0 THEN <<>>
  ELSE LET before == SignalSteps(d, n - 1)
           s      == IF n = 1 THEN NoSignals ELSE before[n - 1]
       IN  Append(before,
                  CASE n = 1 -> RsiStep(s, d)
                    [] n = 2 -> MacdStep(s, d)
                    [] n = 3 -> MovingAverageStep(s, d)
                    [] n = 4 -> VolumeStep(s, d)
                    [] n = 5 -> DailyMomentumStep(s, d)
                    [] OTHER -> WeeklyMomentumStep(s, d))

\* Lines 529-552: the recommendation and confidence for the final counts.
Recommend(s) ==
  IF s.total > 0
  THEN LET buy_ratio  == FloatDiv(s.buy, 2 * s.total)
           sell_ratio == FloatDiv(s.sell, 2 * s.total)
       IN  IF FloatLess(Float06, buy_ratio)
           THEN [recommendation |-> "BUY",
                 confidence |-> IF FloatLess(Float08, buy_ratio)
                                THEN "HIGH" ELSE "MEDIUM"]
           ELSE IF FloatLess(Float06, sell_ratio)
           THEN [recommendation |-> "SELL",
                 confidence |-> IF FloatLess(Float08, sell_ratio)
                                THEN "HIGH" ELSE "MEDIUM"]
           ELSE [recommendation |-> "HOLD",
                 confidence |-> IF FloatLess(FloatAbsDiff(buy_ratio, sell_ratio),
                                             Float02)
                                THEN "LOW" ELSE "MEDIUM"]
  ELSE [recommendation |-> "HOLD", confidence |-> "MEDIUM"]

RuleBasedAnalysis(d) ==
  LET steps == SignalSteps(d, 6)
      rec   == Recommend(steps[6])
  IN  [f |-> "get_rule_based_analysis", steps |-> steps,
       recommendation |-> rec.recommendation, confidence |-> rec.confidence]

\* Indicator values on both sides of, and on, every threshold of the scorer.
RsiValues     == {25, 30, 40, 50, 60, 70, 75}
MacdValues    == {-1, 0, 1}
SignalValues  == {-1, 0}
PriceValues   == {1, 2, 3}
Sma20Values   == {2}
Sma50Values   == {1, 3}
VolumeRatios  == {4, 5, 10, 15, 16}
DailyChanges  == {-3, 2, 3}
WeeklyChanges == {-6, 5, 6}

TechnicalData ==
  [f : {"get_rule_based_analysis"}, rsi : RsiValues,
   macd : MacdValues, macd_signal : SignalValues,
   current_price : PriceValues, sma_20 : Sma20Values, sma_50 : Sma50Values,
   volume_ratio : VolumeRatios,
   price_change_1d : DailyChanges, price_change_5d : WeeklyChanges]

\* No request is under way and the services are up: the pure functions are
\* called on their own.
CallIdle ==
  /\ dbCount = 0 /\ dbDate = NoDate
  /\ client = TRUE /\ aiUp = TRUE /\ redisUp = TRUE /\ dbUp = TRUE
  /\ InitIdle
  /\ OtpIdle
  /\ ret = NoCall

InitCall(args) == CallIdle /\ arg \in args

FunctionReturns(value) ==
  /\ ret = NoCall
  /\ ret' = value
  /\ UNCHANGED <<serviceVars, envVars, arg, otpVars>>

InitScorer == InitCall(TechnicalData)

GetRuleBasedAnalysis ==
  /\ arg.f = "get_rule_based_analysis"
  /\ FunctionReturns(RuleBasedAnalysis(arg))

NextScorer == GetRuleBasedAnalysis

SpecScorer == InitScorer /\ [][NextScorer]_vars



\* ------------------------------------------------- technical_indicators.py
\* calculate_rsi.  Prices are whole numbers; the value returned is kept as the
\* fraction num/den, and "nan" is the mean of no numbers.
MaxLen == 4
MaxPeriod == 3
PriceLevels == {1, 2, 3}

RECURSIVE SeqsUpTo(_, _)
SeqsUpTo(S, n) ==
  IF n = 0 THEN {<<>>}
  ELSE LET shorter == SeqsUpTo(S, n - 1)
       IN  shorter \cup {Append(q, x) : q \in {r \in shorter : Len(r) = n - 1},
                                        x \in S}

Diff(prices) ==
  [i \in 1..(IF Len(prices) = 0 THEN 0 ELSE Len(prices) - 1) |->
     prices[i + 1] - prices[i]]

Gains(deltas) == [i \in DOMAIN deltas |-> IF deltas[i] > 0 THEN deltas[i] ELSE 0]

Losses(deltas) == [i \in DOMAIN deltas |-> IF deltas[i] < 0 THEN -deltas[i] ELSE 0]

RECURSIVE SumFirst(_, _)
SumFirst(xs, n) == IF n = 0 THEN 0 ELSE SumFirst(xs, n - 1) + xs[n]

\* Lines 33-35 for xs[i..]: the average is avg.sum / avg.scale.
RECURSIVE WilderSmooth(_, _, _, _)
WilderSmooth(xs, period, i, avg) ==
  IF i > Len(xs) THEN avg
  ELSE WilderSmooth(xs, period, i + 1,
                    [sum |-> avg.sum * (period - 1) + xs[i] * avg.scale,
                     scale |-> avg.scale * period])

\* Mutant: a series of exactly period elements is not too short.
RsiTooShortByOne(prices, period) == Len(prices) < period

RsiTooShort(prices, period) == Len(prices) < period + 1

CalculateRsi(prices, period) ==
  IF RsiTooShort(prices, period)
  THEN [f |-> "calculate_rsi", kind |-> "value", num |-> 50, den |-> 1]
  ELSE LET gains  == Gains(Diff(prices))
           losses == Losses(Diff(prices))
           first  == IF period < Len(gains) THEN period ELSE Len(gains)
       IN  IF first = 0
           THEN [f |-> "calculate_rsi", kind |-> "nan", num |-> 0, den |-> 0]
           ELSE LET avg_gains  == WilderSmooth(gains, period, period + 1,
                                     [sum |-> SumFirst(gains, first), scale |-> first])
                    avg_losses == WilderSmooth(losses, period, period + 1,
                                     [sum |-> SumFirst(losses, first), scale |-> first])
                IN  IF avg_losses.sum = 0
                    THEN [f |-> "calculate_rsi", kind |-> "value",
                          num |-> 100, den |-> 1]
                    ELSE [f |-> "calculate_rsi", kind |-> "value",
                          num |-> 100 * avg_gains.sum,
                          den |-> avg_gains.sum + avg_losses.sum]

RsiArguments ==
  [f : {"calculate_rsi"}, prices : SeqsUpTo(PriceLevels, MaxLen),
   period : 1..MaxPeriod]

InitRsi == InitCall(RsiArguments)

CalculateRsiCall ==
  /\ arg.f = "calculate_rsi"
  /\ FunctionReturns(CalculateRsi(arg.prices, arg.period))

NextRsi == CalculateRsiCall

SpecRsi == InitRsi /\ [][NextRsi]_vars

\* C25: for every closes series with fewer than period+1 elements, the empty
\* series included, calculate_rsi returns exactly 50.0 (and returns: nothing
\* is raised and the value is a number).
C25_ShortSeriesNeutral ==
  (ret.f = "calculate_rsi" /\ Len(arg.prices) < arg.period + 1) =>
     (ret.kind = "value" /\ ret.num = 50 /\ ret.den = 1)

\* calculate_rsi has returned for a rising series of exactly period elements,
\* one fewer than it needs.
C25_Witness ==
  /\ ret.f = "calculate_rsi"
  /\ arg.period = 2
  /\ arg.prices = <<1, 2>>


\* ---------------------------------------------- get_stock_data_yfinance
\* What yfinance does for one variant: ticker.history raises, returns an
\* empty frame or returns rows; then ticker.info and the conversion of the
\* rows (lines 175-193) go through or one of them raises.
VariantOutcomes == [history : {"raises", "empty", "rows"}, then : {"ok", "raises"}]

\* symbol_variants, lines 161-165, as <<symbol, suffix>>.
SymbolVariants(symbol) == <<<<symbol, ".NS">>, <<symbol, ".BO">>, <<symbol, "">>>>

\* The loop of lines 167-198 from variant i on: the index of the variant whose
\* data is returned, 0 when the loop ends without a return.  An exception
\* anywhere in the body of the loop continues with the next variant.
RECURSIVE FirstReturned(_, _)
FirstReturned(outcome, i) ==
  IF i > Len(outcome) THEN 0
  ELSE IF outcome[i].history = "rows" /\ outcome[i].then = "ok" THEN i
  ELSE FirstReturned(outcome, i + 1)

GetStockData(symbol, outcome) ==
  LET i == FirstReturned(outcome, 1)
  IN  [f |-> "get_stock_data_yfinance", used |-> i,
       data |-> IF i = 0 THEN <<"None", "">> ELSE SymbolVariants(symbol)[i]]

StockDataArguments ==
  [f : {"get_stock_data_yfinance"}, symbol : {"TCS"},
   outcome : [1..3 -> VariantOutcomes]]

InitStockData == InitCall(StockDataArguments)

GetStockDataYfinance ==
  /\ arg.f = "get_stock_data_yfinance"
  /\ FunctionReturns(GetStockData(arg.symbol, arg.outcome))

NextStockData == GetStockDataYfinance

SpecStockData == InitStockData /\ [][NextStockData]_vars

\* C28: the fetch tries symbol.NS, symbol.BO, symbol in that order and
\* returns the series of the first variant whose price history is non-empty;
\* a later variant is used only when every earlier variant returned an empty
\* history.
C28_FirstNonEmptyVariant ==
  ret.f = "get_stock_data_yfinance" =>
    LET nonEmpty == {i \in 1..3 : arg.outcome[i].history = "rows"}
    IN  /\ nonEmpty # {} =>
             /\ ret.used \in nonEmpty
             /\ \A i \in nonEmpty : ret.used <= i
             /\ ret.data = <<arg.symbol, <<".NS", ".BO", "">>[ret.used]>>
        /\ \A i \in 1..3 : i < ret.used => arg.outcome[i].history = "empty"


\* ---------------------------------------- calculate_ema, calculate_macd
\* Prices are whole numbers and every value computed from them is kept as
\* the exact fraction n/d in lowest terms, d > 0 (rounding is left out).
RECURSIVE Gcd(_, _)
Gcd(a, b) == IF b = 0 THEN a ELSE Gcd(b, a % b)

Frac(n, d) ==
  LET g == Gcd(IF n < 0 THEN -n ELSE n, d)
  IN  [n |-> n \div g, d |-> d \div g]

FracAdd(x, y) == Frac(x.n * y.d + y.n * x.d, x.d * y.d)

FracSub(x, y) == Frac(x.n * y.d - y.n * x.d, x.d * y.d)

FracMul(x, y) == Frac(x.n * y.n, x.d * y.d)

\* A series of whole numbers as a series of fractions.
Fracs(xs) == [i \in 1..Len(xs) |-> Frac(xs[i], 1)]

RECURSIVE FracSum(_, _)
FracSum(xs, n) ==
  IF n = 0 THEN Frac(0, 1) ELSE FracAdd(FracSum(xs, n - 1), xs[n])

\* np.mean of the first n >= 1 elements.
MeanFirst(xs, n) == FracMul(FracSum(xs, n), Frac(1, n))

\* Lines 105-106 from element i on.
RECURSIVE EmaFrom(_, _, _, _)
EmaFrom(xs, period, i, ema) ==
  IF i > Len(xs) THEN ema
  ELSE EmaFrom(xs, period, i + 1,
               FracAdd(FracMul(xs[i], Frac(2, period + 1)),
                       FracMul(ema, Frac(period - 1, period + 1))))

\* calculate_ema, lines 95-108, for a series of at least one fraction.
CalculateEma(xs, period) ==
  IF Len(xs) < period THEN MeanFirst(xs, Len(xs))
  ELSE EmaFrom(xs, period, period + 1, MeanFirst(xs, period))

\* The MACD of the prefix of the first n prices, lines 72-74.
PrefixMacd(prices, n, fast, slow) ==
  FracSub(CalculateEma(Fracs(SubSeq(prices, 1, n)), fast),
          CalculateEma(Fracs(SubSeq(prices, 1, n)), slow))

\* Mutant: the first prefix that is long enough for the slow EMA is skipped too.
MacdSeriesLate(prices, fast, slow) ==
  [n \in 1..Len(prices) |->
     IF n - 1 >= slow THEN PrefixMacd(prices, n, fast, slow) ELSE Frac(0, 1)]

\* macd_values, lines 69-76: element n is index i = n - 1 of the code.
MacdSeries(prices, fast, slow) ==
  [n \in 1..Len(prices) |->
     IF n - 1 >= slow - 1 THEN PrefixMacd(prices, n, fast, slow) ELSE Frac(0, 1)]

CalculateMacd(prices, fast, slow, signal) ==
  IF Len(prices) < slow + signal
  THEN [f |-> "calculate_macd", macd |-> Frac(0, 1), signal |-> Frac(0, 1)]
  ELSE [f |-> "calculate_macd",
        macd |-> FracSub(CalculateEma(Fracs(prices), fast),
                         CalculateEma(Fracs(prices), slow)),
        signal |-> CalculateEma(MacdSeries(prices, fast, slow), signal)]

MaxCloses == 5
FastPeriods == {1, 2}
SlowPeriods == {2, 3}
SignalPeriods == {1, 2}

MacdArguments ==
  [f : {"calculate_macd"}, prices : SeqsUpTo(PriceLevels, MaxCloses),
   fast : FastPeriods, slow : SlowPeriods, signal : SignalPeriods]

InitMacd == InitCall(MacdArguments)

CalculateMacdCall ==
  /\ arg.f = "calculate_macd"
  /\ FunctionReturns(CalculateMacd(arg.prices, arg.fast, arg.slow, arg.signal))

NextMacd == CalculateMacdCall

SpecMacd == InitMacd /\ [][NextMacd]_vars

\* ---------------------------------------------------------------------------
\* calculate_support_resistance: local extrema of the recent highs and lows,
\* and the pivot points of the last bar.  Prices are whole numbers; the pivot
\* points, rounded to two decimals, are in hundredths.

\* xs[-periods:]
Recent(xs, periods) ==
  SubSeq(xs, IF Len(xs) > periods THEN Len(xs) - periods + 1 ELSE 1, Len(xs))

\* Mutant: a high that only equals its right neighbour is taken too.
ResistanceCandidatesWeak(recent_highs) ==
  {recent_highs[i] : i \in {j \in 2..(Len(recent_highs) - 1) :
      /\ recent_highs[j] > recent_highs[j - 1]
      /\ recent_highs[j] >= recent_highs[j + 1]}}

\* The set of the values the loop of lines 71-73 appends: range(1, len - 1)
\* is the positions 2..Len-1 here.
ResistanceCandidates(recent_highs) ==
  {recent_highs[i] : i \in {j \in 2..(Len(recent_highs) - 1) :
      /\ recent_highs[j] > recent_highs[j - 1]
      /\ recent_highs[j] > recent_highs[j + 1]}}

SupportCandidates(recent_lows) ==
  {recent_lows[i] : i \in {j \in 2..(Len(recent_lows) - 1) :
      /\ recent_lows[j] < recent_lows[j - 1]
      /\ recent_lows[j] < recent_lows[j + 1]}}

\* sorted(list(S), reverse=True)[:k] and sorted(list(S))[:k]
RECURSIVE SortedDescending(_, _)
SortedDescending(S, k) ==
  IF S = {} \/ k = 0 THEN <<>>
  ELSE LET m == CHOOSE x \in S : \A y \in S : y <= x
       IN <<m>> \o SortedDescending(S \ {m}, k - 1)

RECURSIVE SortedAscending(_, _)
SortedAscending(S, k) ==
  IF S = {} \/ k = 0 THEN <<>>
  ELSE LET m == CHOOSE x \in S : \A y \in S : x <= y
       IN <<m>> \o SortedAscending(S \ {m}, k - 1)

\* round(n / 3, 2) in hundredths; n / 3 is never half way between two
\* hundredths.
RoundThird(n) == (200 * n + 3) \div 6

PivotPoints(h, l, c) ==
  [pivot |-> RoundThird(h + l + c),
   r1    |-> RoundThird(2 * (h + l + c) - 3 * l),
   r2    |-> RoundThird((h + l + c) + 3 * (h - l)),
   s1    |-> RoundThird(2 * (h + l + c) - 3 * h),
   s2    |-> RoundThird((h + l + c) - 3 * (h - l))]

\* The [-1] of an empty array raises, and the except clause returns
\* [], [], {}.
CalculateSupportResistance(high_prices, low_prices, close_prices, periods) ==
  IF Len(high_prices) = 0 \/ Len(low_prices) = 0 \/ Len(close_prices) = 0
  THEN [f |-> "calculate_support_resistance", support |-> <<>>,
        resistance |-> <<>>, pivot_points |-> [k \in {} |-> 0]]
  ELSE [f |-> "calculate_support_resistance",
        support    |-> SortedAscending(
                         SupportCandidates(Recent(low_prices, periods)), 3),
        resistance |-> SortedDescending(
                         ResistanceCandidates(Recent(high_prices, periods)), 3),
        pivot_points |-> PivotPoints(high_prices[Len(high_prices)],
                                     low_prices[Len(low_prices)],
                                     close_prices[Len(close_prices)])]

\* The series the function is called on: up to MaxBars bars whose lows are
\* drawn in turn from two sets of levels, so that a series has up to four
\* distinct troughs, flat stretches and runs, and whose highs mirror the lows
\* above them; and every triple of series of at most one bar, the empty ones
\* included.
MaxBars == 10
Periods == {9}
OddLows == {1, 2, 3, 4}
EvenLows == {3, 5}

Alternating(n, o, e) ==
  [i \in 1..n |-> IF i % 2 = 1 THEN o[(i + 1) \div 2] ELSE e[i \div 2]]

HighsOver(lows) == [i \in 1..Len(lows) |-> 11 - lows[i]]

SupportResistanceArguments(lows, periods) ==
  [f |-> "calculate_support_resistance", periods |-> periods,
   high_prices |-> HighsOver(lows), low_prices |-> lows, close_prices |-> lows]

FewBars ==
  [f : {"calculate_support_resistance"}, periods : Periods,
   high_prices : SeqsUpTo({2, 3}, 1), low_prices : SeqsUpTo({1, 2}, 1),
   close_prices : SeqsUpTo({1, 2}, 1)]

InitSupportResistance ==
  /\ CallIdle
  /\ \/ \E n \in 2..MaxBars, p \in Periods :
          \E o \in [1..((n + 1) \div 2) -> OddLows],
             e \in [1..(n \div 2) -> EvenLows] :
            arg = SupportResistanceArguments(Alternating(n, o, e), p)
     \/ arg \in FewBars

CalculateSupportResistanceCall ==
  /\ arg.f = "calculate_support_resistance"
  /\ FunctionReturns(CalculateSupportResistance(
       arg.high_prices, arg.low_prices, arg.close_prices, arg.periods))

NextSupportResistance == CalculateSupportResistanceCall

SpecSupportResistance ==
  InitSupportResistance /\ [][NextSupportResistance]_vars

\* ---------------------------------------------------------------------------
\* services/otp.py: verify_otp and resend_otp for one email address.  Every
\* Redis command is a step of its own; what a call does between two commands
\* is part of the step of the earlier command.

\* The variables no call of the OTP service touches.
otpFrame == <<analysisVars, envVars, callVars>>

\* What a returned call leaves behind: its result, and its arguments.
Returned(c, result) ==
  [c EXCEPT !.pc = "done", !.res = result, !.attempts = 0, !.data = NoOtp,
            !.ttl = 0]

\* The record of codes and guesses once call c has returned result: a call
\* made with another code than the issued one is a wrong guess at it, and a
\* call that succeeded has spent its code.
Logged(c, result) ==
  [olog EXCEPT
     !.wrong = IF c.gen = olog.gen /\ c.provided # olog.issued
                  /\ olog.wrong < MaxAttempts
               THEN @ + 1 ELSE @,
     !.valid = IF result.ok /\ c.provided = @ THEN "none" ELSE @]

VerifyReturns(p, c, result) ==
  /\ vc' = [vc EXCEPT ![p] = Returned(c, result)]
  /\ olog' = Logged(c, result)

\* Lines 97-117: where verify_otp goes with the value get_otp returned.
AfterGet(code) ==
  IF now - otp.created_at > OtpLife THEN "expired"
  ELSE IF otp.attempts >= MaxAttempts THEN "toomany"
  ELSE IF HashOtp(code, otp.salt) = otp.otp_hash THEN "correct"
  ELSE "incr"

\* The rejection of line 119.
Invalid(c) ==
  [ok |-> FALSE, message |-> "Invalid OTP",
   remaining |-> MaxAttempts - (c.attempts + 1)]

\* verify_otp lines 91-110: GET of the key (get_otp), and the checks made on
\* the value read.
VerifyGet(p, code) ==
  /\ vc[p].pc \in {"idle", "done"}
  /\ olog.calls < MaxVerifies
  /\ LET c == [NoVerify EXCEPT !.provided = code,
                               !.attempts = otp.attempts,
                               !.late = olog.wrong >= MaxAttempts,
                               !.gen = olog.gen,
                               !.legit = (code = olog.valid)]
         counted == [olog EXCEPT !.calls = @ + 1]
     IN IF otp = NoOtp
        THEN /\ vc' = [vc EXCEPT ![p] =
                         Returned(c, [ok |-> FALSE, remaining |-> 0,
                                  message |-> "OTP expired or not found"])]
             /\ olog' = [Logged(c, NoResult) EXCEPT !.calls = @ + 1]
        ELSE /\ vc' = [vc EXCEPT ![p] = [c EXCEPT !.pc = AfterGet(code)]]
             /\ olog' = counted
  /\ UNCHANGED <<otp, rs, now, otpFrame>>

\* Lines 99-100, 104-105 and 112-114: DEL of the key (delete_otp), and the
\* return.
VerifyDelete(p) ==
  /\ vc[p].pc \in {"expired", "toomany", "correct"}
  /\ otp' = NoOtp
  /\ VerifyReturns(p, vc[p],
       [ok |-> vc[p].pc = "correct", remaining |-> 0,
        message |-> CASE vc[p].pc = "expired" -> "OTP has expired"
                      [] vc[p].pc = "toomany" -> "Too many failed attempts"
                      [] OTHER -> "OTP verified successfully"])
  /\ UNCHANGED <<rs, now, otpFrame>>

\* _increment_attempts lines 129-133: GET of the key, and one more attempt in
\* the copy read; nothing is written when the key is gone.
IncrementGet(p) ==
  /\ vc[p].pc = "incr"
  /\ IF otp = NoOtp
     THEN VerifyReturns(p, vc[p], Invalid(vc[p]))
     ELSE /\ vc' = [vc EXCEPT ![p].pc = "ttl",
                              ![p].data = [otp EXCEPT !.attempts = @ + 1]]
          /\ UNCHANGED olog
  /\ UNCHANGED <<otp, rs, now, otpFrame>>

\* Lines 136-137: TTL of the key, -2 when the key is gone.
IncrementTtl(p) ==
  /\ vc[p].pc = "ttl"
  /\ LET ttl == IF otp = NoOtp THEN -2 ELSE otp.exp - now
     IN IF ttl > 0
        THEN /\ vc' = [vc EXCEPT ![p].pc = "setex", ![p].ttl = ttl]
             /\ UNCHANGED olog
        ELSE VerifyReturns(p, vc[p], Invalid(vc[p]))
  /\ UNCHANGED <<otp, rs, now, otpFrame>>

\* Line 138: SETEX of the copy with the time-to-live read, and the return of
\* line 119.
IncrementSetex(p) ==
  /\ vc[p].pc = "setex"
  /\ otp' = [vc[p].data EXCEPT !.exp = now + vc[p].ttl]
  /\ VerifyReturns(p, vc[p], Invalid(vc[p]))
  /\ UNCHANGED <<rs, now, otpFrame>>

\* resend_otp line 159: DEL of the key.
ResendDelete ==
  /\ rs = "idle"
  /\ rs' = "store"
  /\ otp' = NoOtp
  /\ UNCHANGED <<vc, olog, now, otpFrame>>

\* resend_otp lines 162-167: a new code and a new salt, and the SETEX of
\* store_otp.
ResendStore ==
  /\ rs = "store"
  /\ rs' = "done"
  /\ \E code \in Codes, salt \in Salts :
       /\ otp' = StoredOtp(code, salt, now)
       /\ olog' = [olog EXCEPT !.gen = @ + 1, !.issued = code, !.valid = code,
                               !.wrong = 0]
       /\ vc' = [p \in Procs |->
                  [vc[p] EXCEPT !.legit =
                     @ \/ (vc[p].pc \notin {"idle", "done"}
                           /\ vc[p].provided = code)]]
  /\ UNCHANGED <<now, otpFrame>>

\* The clock advances one tick; Redis drops the key when its time has run
\* out.
OtpTick ==
  /\ now < MaxTick
  /\ now' = now + 1
  /\ otp' = IF otp # NoOtp /\ otp.exp <= now + 1 THEN NoOtp ELSE otp
  /\ UNCHANGED <<vc, rs, olog, otpFrame>>

\* A code has been issued at time 0 and wrongly guessed a number of times,
\* one call after the other.
InitOtp ==
  /\ dbCount = 0 /\ dbDate = NoDate
  /\ client = TRUE /\ aiUp = TRUE /\ redisUp = TRUE /\ dbUp = TRUE
  /\ InitIdle
  /\ arg = NoCall /\ ret = NoCall
  /\ vc = [p \in Procs |-> NoVerify]
  /\ rs = "idle"
  /\ \E a \in {0, 3} :
       /\ otp = [StoredOtp("111", "s1", 0) EXCEPT !.attempts = a]
       /\ olog = [gen |-> 1, issued |-> "111", valid |-> "111", wrong |-> a,
                  calls |-> 0]

NextOtp ==
  \/ \E p \in Procs, code \in Codes : VerifyGet(p, code)
  \/ \E p \in Procs : VerifyDelete(p)
  \/ \E p \in Procs : IncrementGet(p)
  \/ \E p \in Procs : IncrementTtl(p)
  \/ \E p \in Procs : IncrementSetex(p)
  \/ ResendDelete
  \/ ResendStore
  \/ OtpTick

SpecOtp == InitOtp /\ [][NextOtp]_vars

\* The recommendation the thresholds give for final counts s when the ratios
\* are taken as exact numbers: buy/total > 0.6 is 5*buy > 6*total in halves.
Abs(x) == IF x < 0 THEN -x ELSE x

ByThresholds(s) ==
  IF 5 * s.buy > 6 * s.total
  THEN [recommendation |-> "BUY",
        confidence |-> IF 5 * s.buy > 8 * s.total THEN "HIGH" ELSE "MEDIUM"]
  ELSE IF 5 * s.sell > 6 * s.total
  THEN [recommendation |-> "SELL",
        confidence |-> IF 5 * s.sell > 8 * s.total THEN "HIGH" ELSE "MEDIUM"]
  ELSE [recommendation |-> "HOLD",
        confidence |-> IF 5 * Abs(s.buy - s.sell) < 2 * s.total
                       THEN "LOW" ELSE "MEDIUM"]

\* C24: for every combination of signal totals the scorer produces, the
\* recommendation is BUY when buySignals/totalSignals > 0.6 (HIGH when > 0.8,
\* else MEDIUM), otherwise SELL when sellSignals/totalSignals > 0.6 (HIGH when
\* > 0.8, else MEDIUM), otherwise HOLD, LOW when the absolute difference of
\* the two ratios is < 0.2 and MEDIUM when it is not.
C24_RecommendationThresholds ==
  ret.f = "get_rule_based_analysis" =>
    /\ ret.steps[6].total > 0
    /\ ret.recommendation = ByThresholds(ret.steps[6]).recommendation
    /\ ret.confidence = ByThresholds(ret.steps[6]).confidence

\* C26: the volume step (the fourth) adds 1 to totalSignals only when it adds
\* 0.5 to buySignals or to sellSignals; a ratio > 1.5 with buy and sell tied,
\* or a ratio < 0.5, leaves totalSignals unchanged.
C26_VolumeCountedOnlyWithVote ==
  ret.f = "get_rule_based_analysis" =>
    LET before == ret.steps[3]
        next   == ret.steps[4]
    IN  /\ next.total # before.total =>
             (next.buy = before.buy + 1 \/ next.sell = before.sell + 1)
        /\ (arg.volume_ratio > 15 /\ before.buy = before.sell) =>
             next.total = before.total
        /\ arg.volume_ratio < 5 => next.total = before.total


\* C27: whenever analyze returns the quota-exceeded result, the status attached
\* to it reports remaining = 0 and canSearch = false, also when the quota
\* check and the status read fall on different sides of UTC midnight.
C27_DeniedStatusExhausted ==
  \A p \in Procs :
    (pc[p] = "done" /\ resp[p].error = "quota") =>
       (resp[p].info.remaining = 0 /\ ~resp[p].info.can)


\* C29: every store, at any instant of the UTC day, the last second before
\* midnight included, writes the entry with a time-to-live of at least 1
\* second that ends no later than the next UTC midnight, so that the store
\* succeeds.
C29_StoreExpiryInDay ==
  /\ \A p \in Procs :
       /\ pc[p] \in {"setex", "list", "listw"} => stv[p].expiry >= 1
       /\ "storefail" \notin did[p]
  /\ \A k \in DOMAIN cache :
       cache[k] # NoEntry => cache[k].exp <= (cache[k].day + 1) * TicksPerDay


\* Some store call has written its entry and not yet finished with the list.
StoreUnderWay == \E p \in Procs : pc[p] \in {"list", "listw"}

Listed(s) == \E i \in 1..Len(TodaysSearches) : TodaysSearches[i].symbol = s

\* C30: under any interleaving of concurrent store calls by one user for
\* different symbols on one UTC day, once the calls have returned every symbol
\* whose cache entry is live appears in the list of today, so that a clear
\* that follows leaves no entry of the user readable.
C30_LiveEntriesListed ==
  [][/\ ~StoreUnderWay =>
          \A s \in UpperSymbols : CachedAnalysis(s) # NoData => Listed(s)
     /\ (ClearCache /\ ~StoreUnderWay) =>
          \A s \in UpperSymbols : CachedAnalysis(s)' = NoData]_vars


\* C31: the MACD step (the second) adds to buySignals 1 when macd > signal
\* and macd > 0, and 0.5 when macd > signal and macd <= 0; in every other
\* case, macd = signal and the insufficient-data result (0.0, 0.0) included,
\* it adds to sellSignals 1 when macd < 0 and 0.5 otherwise; it adds exactly
\* 1 to totalSignals in all cases and nothing else.
C31_MacdVote ==
  ret.f = "get_rule_based_analysis" =>
    LET before == ret.steps[1]
        next   == ret.steps[2]
        buy    == IF arg.macd > arg.macd_signal
                  THEN (IF arg.macd > 0 THEN 2 ELSE 1) ELSE 0
        sell   == IF arg.macd > arg.macd_signal
                  THEN 0 ELSE (IF arg.macd < 0 THEN 2 ELSE 1)
    IN  /\ next.buy = before.buy + buy
        /\ next.sell = before.sell + sell
        /\ next.total = before.total + 1

\* The scorer has returned for the insufficient-data result (0.0, 0.0).
C31_Witness ==
  /\ ret.f = "get_rule_based_analysis"
  /\ arg.macd = 0
  /\ arg.macd_signal = 0
  /\ ret.steps[2].sell = ret.steps[1].sell + 1


\* C32: for every input to the scorer buySignals + sellSignals <= totalSignals
\* and totalSignals >= 3, so that both ratios are defined, their sum is at
\* most 1, and buyRatio > 0.6 and sellRatio > 0.6 never hold together (as the
\* code evaluates them).
C32_SignalTotals ==
  ret.f = "get_rule_based_analysis" =>
    LET s == ret.steps[6]
    IN  /\ s.buy + s.sell <= 2 * s.total
        /\ s.total >= 3
        /\ ~(/\ FloatLess(Float06, FloatDiv(s.buy, 2 * s.total))
             /\ FloatLess(Float06, FloatDiv(s.sell, 2 * s.total)))

\* The scorer has returned with every counted signal a full buy vote: the
\* case where buySignals + sellSignals = totalSignals = 3.
C32_Witness ==
  /\ ret.f = "get_rule_based_analysis"
  /\ ret.steps[6] = [buy |-> 6, sell |-> 0, total |-> 3]
  /\ ret.recommendation = "BUY"


\* calculate_macd has returned for a series long enough for a signal line.
MacdComputed ==
  /\ ret.f = "calculate_macd"
  /\ Len(arg.prices) >= arg.slow + arg.signal

\* C33 as stated: the signal line is the EMA(signal) of the sequence whose
\* element at every index of the series, from the first, is
\* EMA(prefix, fast) - EMA(prefix, slow) computed on that prefix alone, with
\* the short-series fallback of the EMA for short prefixes.
C33_SignalOfEveryPrefix ==
  MacdComputed =>
    ret.signal =
      CalculateEma([n \in 1..Len(arg.prices) |->
                      PrefixMacd(arg.prices, n, arg.fast, arg.slow)],
                   arg.signal)

\* C33 amended: the signal line is the EMA(signal) of the sequence whose
\* element is 0 at every index below slow - 1 and, from index slow - 1 on,
\* EMA(prefix, fast) - EMA(prefix, slow) computed on that prefix alone.
C33_SignalOfPrefixesFromSlow ==
  MacdComputed =>
    ret.signal =
      CalculateEma([n \in 1..Len(arg.prices) |->
                      IF n < arg.slow THEN Frac(0, 1)
                      ELSE PrefixMacd(arg.prices, n, arg.fast, arg.slow)],
                   arg.signal)

\* A signal line has been returned that the zeros below slow - 1 decide: a
\* prefix shorter than slow has a fast EMA that is not its mean.
C33_Witness ==
  /\ MacdComputed
  /\ arg.slow = 3
  /\ arg.signal = 2
  /\ PrefixMacd(arg.prices, 2, arg.fast, arg.slow) # Frac(0, 1)
  /\ ret.signal # Frac(0, 1)

\* The position in xs of the first bar of the last `periods` bars.
WindowStart(xs, periods) ==
  IF Len(xs) > periods THEN Len(xs) - periods + 1 ELSE 1

\* C34: calculate_support_resistance returns at most 3 resistance levels in
\* strictly descending order and at most 3 support levels in strictly
\* ascending order (so without duplicates), and every returned resistance
\* level is a high of the last `periods` highs that is strictly above both its
\* neighbours, both of which are among the last `periods` highs; every
\* returned support level is likewise a low strictly below both neighbours.
C34_SupportResistanceLevels ==
  ret.f = "calculate_support_resistance" =>
    /\ Len(ret.resistance) <= 3
    /\ Len(ret.support) <= 3
    /\ \A i \in 1..(Len(ret.resistance) - 1) :
         ret.resistance[i] > ret.resistance[i + 1]
    /\ \A i \in 1..(Len(ret.support) - 1) :
         ret.support[i] < ret.support[i + 1]
    /\ \A i \in 1..Len(ret.resistance) :
         \E j \in (WindowStart(arg.high_prices, arg.periods) + 1)
                    ..(Len(arg.high_prices) - 1) :
           /\ arg.high_prices[j] = ret.resistance[i]
           /\ arg.high_prices[j] > arg.high_prices[j - 1]
           /\ arg.high_prices[j] > arg.high_prices[j + 1]
    /\ \A i \in 1..Len(ret.support) :
         \E j \in (WindowStart(arg.low_prices, arg.periods) + 1)
                    ..(Len(arg.low_prices) - 1) :
           /\ arg.low_prices[j] = ret.support[i]
           /\ arg.low_prices[j] < arg.low_prices[j - 1]
           /\ arg.low_prices[j] < arg.low_prices[j + 1]

\* Four distinct peaks in the window, of which three are returned, and a
\* series longer than the window.
C34_Witness ==
  /\ ret.f = "calculate_support_resistance"
  /\ Len(arg.high_prices) > arg.periods
  /\ Len(ret.resistance) = 3
  /\ \E j \in (WindowStart(arg.high_prices, arg.periods) + 1)
                ..(Len(arg.high_prices) - 1) :
       /\ arg.high_prices[j] > arg.high_prices[j - 1]
       /\ arg.high_prices[j] > arg.high_prices[j + 1]
       /\ \A i \in 1..3 : ret.resistance[i] # arg.high_prices[j]

\* C35: with one code issued and no resend, a verify_otp call that began when
\* five calls with a wrong code had returned was rejected whatever code it
\* gave, and the key is deleted.
C35_FiveWrongGuesses ==
  \A p \in Procs :
    (vc[p].pc = "done" /\ vc[p].late /\ rs = "idle") =>
      /\ ~vc[p].res.ok
      /\ otp = NoOtp

\* C36: a verify_otp call succeeds only with a code that was, at some time
\* during the call, the code issued last and not yet verified: after a call
\* has succeeded, and after a resend has issued another code, a call made with
\* the earlier code is rejected.
C36_VerifiesOnce ==
  \A p \in Procs : (vc[p].pc = "done" /\ vc[p].res.ok) => vc[p].legit

====
